---- MODULE Spec2Model ----
(***************************************************************************)
(* Model of the weighted partition allocator (src/src/distributions.py)    *)
(* and of the access-grant sampler (src/src/generate_structure.py).        *)
(*                                                                         *)
(* Real-valued weights are kept as integer numerators over their common    *)
(* sum: a normalised weight is w[i] / SumSeq(w).  Pareto samples are in    *)
(* units of 0.1, so the np.maximum(weights, 0.1) clamp is Max2(sample, 1). *)
(* np.argsort leaves the order of equal weights to the sort of the build:  *)
(* the call may return any permutation that puts the weights in ascending  *)
(* order.                                                                  *)
(* Zipf weights rank^(-alpha) are exact for the integer exponents of       *)
(* AlphaSet, scaled by Lcm(count)^alpha.                                   *)
(***************************************************************************)
EXTENDS Integers, Sequences, FiniteSets, TLC

(***************************************************************************)
(* Bounds of the explored inputs.                                          *)
(***************************************************************************)
MaxItems == 6
MaxUniformItems == 10
MaxCount == 3
MaxMin == 3
MaxSample == 4
MaxServers == 2
MaxPodsPerServer == 2
MaxPods == 4
MaxParetoPods == 2
MaxFiles == 3
MaxAgents == 2
MaxWebIds == 2

AlphaSet == {1, 2}
StrategySet == {"uniform", "pareto", "zipf", "normal"}
KnownStrategies == {"uniform", "pareto", "zipf"}

VARIABLES
    op,           \* the operation that was called last
    n_items,      \* len(items) / len(source_files) of the call
    count,        \* number of groups of the call (num_servers for pods)
    alpha,        \* zipf exponent of the call
    min_count,    \* min_count / min_pods_per_server / min_files_per_pod
    samples,      \* the np.random.pareto draws of the call, in units of 0.1
    below,        \* groups whose float product weights[i]*n fell under the exact value
    sorted_indices, \* what np.argsort(weights) returned, <<>> when it was not called
    strategy,     \* strategy name of the call
    pod_strategy, \* strategy that produced pod_counts, "none" when the caller made them up
    stats,        \* what get_distribution_stats returned
    pod_counts,   \* pod_counts argument of distribute_files_to_pods
    pods_per_server, \* pods_per_server argument of distribute_pods_to_servers
    files_for_pod, \* file count of every pod, as distribute_files_to_pods computed it
    result,       \* [err |-> exception name or "none", val |-> returned value]
    gpc,          \* where the access-control computation stands
    num_files,    \* len(files) / len(file_mappings), the files are 1..num_files
    social_agents, \* the power field of every social agent, in list order
    web_ids,      \* len(web_ids), the regular agents are 1..web_ids
    access_control, \* file -> list of the identities granted so far
    agent_i,      \* position of the loop over social_agents
    file_i,       \* position of the loop over file_mappings
    grant_err,    \* the exception that ended the computation, or "none"
    rpc,          \* where the experiment run stands
    entry,        \* the script that was started: "run_experiment" or "distribute_files"
    config,       \* num_servers, pods_per_server and files_per_pod of config.json
    main_sees_files, \* whether the glob of run_experiment found a .txt file
    available,    \* len(all_source_files), what the glob of distribute_files found
    run_err,      \* message of the exception distribute_files or run_experiment raised
    performed,    \* the effects the run has had so far
    lpc,          \* where generation and launch stand
    dirs,         \* names of the server directories under the experiment directory
    metaindex,    \* server id -> the rows of its ESPRESSO/metaindex.csv
    csv_rows,     \* the rows of LTOVERLAYSERVERS.csv
    listing,      \* what os.listdir handed to discover_servers
    launch_servers, \* servers of main: what discover_servers returned
    launch_idx,   \* idx of the loops of main
    processes     \* the servers launched so far, each with its port

allocVars == <<op, n_items, count, alpha, min_count, samples, below, sorted_indices, strategy,
               pod_strategy, stats, pod_counts, pods_per_server, files_for_pod, result>>

grantVars == <<gpc, num_files, social_agents, web_ids, access_control, agent_i,
               file_i, grant_err>>

runVars == <<rpc, entry, config, main_sees_files, available, run_err, performed>>

launchVars == <<lpc, dirs, metaindex, csv_rows, listing, launch_servers, launch_idx, processes>>

vars == <<allocVars, grantVars, runVars, launchVars>>

----------------------------------------------------------------------------
(* Arithmetic helpers *)

RECURSIVE SumSeq(_)
SumSeq(s) == IF s = <<>> THEN 0 ELSE s[1] + SumSeq(Tail(s))

Max2(a, b) == IF a >= b THEN a ELSE b

Min2(a, b) == IF a <= b THEN a ELSE b

RECURSIVE Pow(_, _)
Pow(b, e) == IF e = 0 THEN 1 ELSE b * Pow(b, e - 1)

RECURSIVE Gcd(_, _)
Gcd(a, b) == IF b = 0 THEN a ELSE Gcd(b, a % b)

LcmOf(a, b) == (a * b) \div Gcd(a, b)

\* least common multiple of 1..k
RECURSIVE Lcm(_)
Lcm(k) == IF k <= 1 THEN 1 ELSE LcmOf(Lcm(k - 1), k)

Reverse(s) == [i \in 1..Len(s) |-> s[Len(s) + 1 - i]]

Ok(v) == [err |-> "none", val |-> v]

Raise(e) == [err |-> e, val |-> <<>>]

\* list(range(total)): its length
RangeLen(total) == Max2(total, 0)

----------------------------------------------------------------------------
(* uniform_distribution *)

\* faulty variant: the remainder goes to the last groups instead of the first
UniformDistributionTail(n, k) ==
    IF k <= 0 THEN <<>>
    ELSE [i \in 1..k |-> IF i > k - (n % k) THEN (n \div k) + 1 ELSE n \div k]

UniformDistribution(n, k) ==
    IF k <= 0 THEN <<>>
    ELSE LET base_count == n \div k
             remainder  == n % k
         IN  [i \in 1..k |-> IF i <= remainder THEN base_count + 1 ELSE base_count]

----------------------------------------------------------------------------
(* Steps shared by pareto_distribution, zipf_distribution and the inlined  *)
(* copies in distribute_files_to_pods.                                     *)

\* np.maximum(weights, 0.1) on samples in units of 0.1
ParetoWeights(smp) == [i \in 1..Len(smp) |-> Max2(smp[i], 1)]

\* faulty variant: np.power(ranks, alpha) without the reciprocal
ZipfWeightsRising(k, a) == [r \in 1..k |-> Pow(r, a)]

\* 1 / np.power(ranks, alpha), scaled by Lcm(k)^alpha so every entry is an integer
ZipfWeights(k, a) == [r \in 1..k |-> Pow(Lcm(k) \div r, a)]

\* groups whose exact product weights[i] * n is a positive integer although the
\* weight itself is not 1.0: the float product may land one ulp under it
ExactIdx(w, n) ==
    {i \in 1..Len(w) : /\ Len(w) > 1
                       /\ (w[i] * n) % SumSeq(w) = 0
                       /\ w[i] * n > 0}

----------------------------------------------------------------------------
(* The float64 arithmetic of numpy, for the zipf weights.  The exact        *)
(* quotient weights[r] * n / sum(weights) and its float differ by a         *)
(* relative error under 2^-50, so the truncation can only differ where the  *)
(* exact quotient is an integer; there the doubles are computed in full:    *)
(* 1 / r^alpha, their sum, the normalised weight and its product with n,    *)
(* each rounded to the nearest double, ties to even.                        *)

(* Natural numbers of any size: the digits in base 2^15, lowest first,     *)
(* without leading zeros.                                                  *)
LimbBits == 15
LimbBase == 32768

Pow2 == [j \in 0..LimbBits |-> Pow(2, j)]

Limb(x, i) == IF i <= Len(x) THEN x[i] ELSE 0

RECURSIVE Norm(_)
Norm(x) ==
    IF x = <<>> THEN <<>>
    ELSE IF x[Len(x)] = 0 THEN Norm(SubSeq(x, 1, Len(x) - 1)) ELSE x

RECURSIVE FromNat(_)
FromNat(v) == IF v = 0 THEN <<>> ELSE <<v % LimbBase>> \o FromNat(v \div LimbBase)

RECURSIVE ToNat(_)
ToNat(x) == IF x = <<>> THEN 0 ELSE x[1] + LimbBase * ToNat(Tail(x))

RECURSIVE AddFrom(_, _, _, _)
AddFrom(x, y, i, carry) ==
    IF i > Max2(Len(x), Len(y))
    THEN (IF carry = 0 THEN <<>> ELSE <<carry>>)
    ELSE LET t == Limb(x, i) + Limb(y, i) + carry
         IN  <<t % LimbBase>> \o AddFrom(x, y, i + 1, t \div LimbBase)

BigAdd(x, y) == AddFrom(x, y, 1, 0)

\* x - y for x >= y
RECURSIVE SubFrom(_, _, _, _)
SubFrom(x, y, i, borrow) ==
    IF i > Len(x) THEN <<>>
    ELSE LET t == x[i] - Limb(y, i) - borrow
         IN  IF t < 0 THEN <<t + LimbBase>> \o SubFrom(x, y, i + 1, 1)
             ELSE <<t>> \o SubFrom(x, y, i + 1, 0)

BigSub(x, y) == Norm(SubFrom(x, y, 1, 0))

RECURSIVE GeqFrom(_, _, _)
GeqFrom(x, y, i) ==
    IF i = 0 THEN TRUE
    ELSE IF x[i] # y[i] THEN x[i] > y[i]
    ELSE GeqFrom(x, y, i - 1)

BigGeq(x, y) ==
    IF Len(x) # Len(y) THEN Len(x) > Len(y) ELSE GeqFrom(x, y, Len(x))

\* x * f + c for 0 <= f <= 2^15 and 0 <= c < 2^15
RECURSIVE MulFrom(_, _, _, _)
MulFrom(x, f, i, carry) ==
    IF i > Len(x) THEN FromNat(carry)
    ELSE LET t == x[i] * f + carry
         IN  <<t % LimbBase>> \o MulFrom(x, f, i + 1, t \div LimbBase)

MulAdd(x, f, c) == Norm(MulFrom(x, f, 1, c))

RECURSIVE SmallBitLen(_)
SmallBitLen(v) == IF v = 0 THEN 0 ELSE 1 + SmallBitLen(v \div 2)

BitLen(x) == IF x = <<>> THEN 0 ELSE LimbBits * (Len(x) - 1) + SmallBitLen(x[Len(x)])

\* bit pos of x, the lowest bit being bit 0
Bit(x, pos) == (Limb(x, (pos \div LimbBits) + 1) \div Pow2[pos % LimbBits]) % 2

\* x * 2^s
Shl(x, s) ==
    IF x = <<>> THEN <<>>
    ELSE [i \in 1..(s \div LimbBits) |-> 0] \o MulAdd(x, Pow2[s % LimbBits], 0)

\* floor(x / 2^d)
Shr(x, d) ==
    LET a == d \div LimbBits
        b == d % LimbBits
    IN  Norm([i \in 1..Max2(Len(x) - a, 0) |->
                (Limb(x, i + a) \div Pow2[b])
                    + (Limb(x, i + a + 1) % Pow2[b]) * Pow2[LimbBits - b]])

\* one of the d lowest bits of x is set
LowBits(x, d) == \E pos \in 0..(d - 1) : Bit(x, pos) = 1

\* long division, one step: the next bits of num, count of them from bit pos
\* downwards, are brought down into the remainder of st, and the quotient of
\* st gains a bit each time
RECURSIVE DivBits(_, _, _, _, _)
DivBits(num, den, pos, bits, st) ==
    IF bits = 0 \/ pos < 0 THEN st
    ELSE LET r == MulAdd(st.rem, 2, Bit(num, pos))
         IN  IF BigGeq(r, den)
             THEN DivBits(num, den, pos - 1, bits - 1,
                          [quot |-> MulAdd(st.quot, 2, 1), rem |-> BigSub(r, den)])
             ELSE DivBits(num, den, pos - 1, bits - 1,
                          [quot |-> MulAdd(st.quot, 2, 0), rem |-> r])

\* long division, a digit of the quotient at a time
RECURSIVE DivFrom(_, _, _, _)
DivFrom(num, den, pos, st) ==
    IF pos < 0 THEN st
    ELSE DivFrom(num, den, pos - LimbBits, DivBits(num, den, pos, LimbBits, st))

DivMod(num, den) == DivFrom(num, den, BitLen(num) - 1, [quot |-> <<>>, rem |-> <<>>])

(* A double is [m, e] for the value m * 2^e with m < 2^53.                  *)
Mantissa == 53

\* the double nearest to (q + fraction) * 2^e, ties to the even mantissa;
\* sticky says that the fraction is not 0, and then q has at least 55 bits
RoundNearestEven(q, sticky, e) ==
    IF BitLen(q) <= Mantissa THEN [m |-> q, e |-> e]
    ELSE LET d == BitLen(q) - Mantissa
             kept == Shr(q, d)
             up == /\ Bit(q, d - 1) = 1
                   /\ (sticky \/ LowBits(q, d - 1) \/ Bit(kept, 0) = 1)
             m == IF up THEN BigAdd(kept, <<1>>) ELSE kept
         IN  IF BitLen(m) > Mantissa THEN [m |-> Shr(m, 1), e |-> e + d + 1]
             ELSE [m |-> m, e |-> e + d]

DoubleOf(v) == [m |-> FromNat(v), e |-> 0]

\* x / y
DoubleDiv(x, y) ==
    LET s == Max2(0, Mantissa + 2 + BitLen(y.m) - BitLen(x.m))
        qr == DivMod(Shl(x.m, s), y.m)
    IN  RoundNearestEven(qr.quot, qr.rem # <<>>, x.e - y.e - s)

\* x + y
DoubleAdd(x, y) ==
    LET e == IF x.e <= y.e THEN x.e ELSE y.e
    IN  RoundNearestEven(BigAdd(Shl(x.m, x.e - e), Shl(y.m, y.e - e)), FALSE, e)

\* x * n for an integer 0 <= n <= 2^15
DoubleTimes(x, n) == RoundNearestEven(MulAdd(x.m, n, 0), FALSE, x.e)

\* int(x) for 0 <= x < 2^31
DoubleToInt(x) == IF x.e >= 0 THEN ToNat(Shl(x.m, x.e)) ELSE ToNat(Shr(x.m, 0 - x.e))

\* 1 / np.power(ranks, alpha)
ZipfTerms(k, a) == [r \in 1..k |-> DoubleDiv(DoubleOf(1), DoubleOf(Pow(r, a)))]

\* weights.sum(), the terms added one after the other
RECURSIVE DoubleSum(_, _)
DoubleSum(terms, j) ==
    IF j = 1 THEN terms[1] ELSE DoubleAdd(DoubleSum(terms, j - 1), terms[j])

\* (weights * n).astype(int) of the zipf weights in double arithmetic
ZipfEstimates(n, k, a) ==
    LET terms == ZipfTerms(k, a)
        total == DoubleSum(terms, k)
    IN  [r \in 1..k |-> DoubleToInt(DoubleTimes(DoubleDiv(terms[r], total), n))]

\* the ranks whose float product weights[r] * n is under its exact integer value
ZipfBelow(n, k, a) ==
    LET weights == ZipfWeights(k, a)
        exact == ExactIdx(weights, n)
    IN  IF exact = {} THEN {}
        ELSE LET estimates == ZipfEstimates(n, k, a)
             IN  {r \in exact : estimates[r] < (weights[r] * n) \div SumSeq(weights)}

----------------------------------------------------------------------------
(* Truncation, floor and correction *)

\* faulty variant: the products are rounded up instead of truncated
TruncateUp(w, n, bel) ==
    [i \in 1..Len(w) |-> (w[i] * n + SumSeq(w) - 1) \div SumSeq(w)]

\* (weights * len(items)).astype(int)
Truncate(w, n, bel) ==
    [i \in 1..Len(w) |->
        LET q == (w[i] * n) \div SumSeq(w)
        IN  IF i \in bel /\ i \in ExactIdx(w, n) THEN q - 1 ELSE q]

\* faulty variant: the clamp to min_count is left out
EnsureMinimumSkipped(d, m) == d

\* np.maximum(distribution, min_count)
EnsureMinimum(d, m) == [i \in 1..Len(d) |-> Max2(d[i], m)]

\* the outcomes of np.argsort(weights): the permutations that put the weights
\* in ascending order, equal weights in any order
ArgSort(w) ==
    {order \in Permutations(1..Len(w)) :
        \A r \in 1..(Len(w) - 1) : w[order[r]] <= w[order[r + 1]]}

\* faulty variant: every surplus unit goes to the first group of the order
RECURSIVE AddSurplusToFirst(_, _, _, _)
AddSurplusToFirst(d, order, i, diff) ==
    IF i >= diff THEN d
    ELSE AddSurplusToFirst([d EXCEPT ![order[1]] = @ + 1], order, i + 1, diff)

\* for i in range(diff): distribution[order[i % count]] += 1
RECURSIVE AddSurplus(_, _, _, _)
AddSurplus(d, order, i, diff) ==
    IF i >= diff THEN d
    ELSE LET idx == order[(i % Len(d)) + 1]
         IN  AddSurplus([d EXCEPT ![idx] = @ + 1], order, i + 1, diff)

\* faulty variant: the deficit loop lowers a group without looking at min_count
RECURSIVE RemoveExcessUnguarded(_, _, _, _, _)
RemoveExcessUnguarded(d, order, i, ndiff, m) ==
    IF i >= ndiff THEN d
    ELSE LET idx == order[(i % Len(d)) + 1]
         IN  RemoveExcessUnguarded([d EXCEPT ![idx] = @ - 1], order, i + 1, ndiff, m)

\* for i in range(-diff): idx = order[i % count];
\*     if distribution[idx] > min_count: distribution[idx] -= 1
RECURSIVE RemoveExcess(_, _, _, _, _)
RemoveExcess(d, order, i, ndiff, m) ==
    IF i >= ndiff THEN d
    ELSE LET idx == order[(i % Len(d)) + 1]
         IN  RemoveExcess(IF d[idx] > m THEN [d EXCEPT ![idx] = @ - 1] ELSE d,
                          order, i + 1, ndiff, m)

\* diff = len(items) - distribution.sum(), then the surplus or the deficit loop
Adjust(d, n, m, surplusOrder, deficitOrder) ==
    LET diff == n - SumSeq(d)
    IN  IF diff > 0 THEN AddSurplus(d, surplusOrder, 0, diff)
        ELSE IF diff < 0 THEN RemoveExcess(d, deficitOrder, 0, 0 - diff, m)
        ELSE d

----------------------------------------------------------------------------
(* pareto_distribution and zipf_distribution *)

\* the outcomes of the np.argsort call of a pareto computation: the call is
\* made only in the diff > 0 and diff < 0 branches
ParetoOrders(n, smp, bel, m) ==
    IF n - SumSeq(EnsureMinimum(Truncate(ParetoWeights(smp), n, bel), m)) = 0
    THEN {<<>>}
    ELSE ArgSort(ParetoWeights(smp))

\* faulty variant: the surplus loop walks the ascending order, [::-1] is left out
ParetoDistributionAscendingSurplus(n, k, smp, bel, m, order) ==
    IF k <= 0 THEN <<>>
    ELSE LET weights == ParetoWeights(smp)
             distribution == EnsureMinimum(Truncate(weights, n, bel), m)
         IN  Adjust(distribution, n, m, order, order)

\* faulty variant: the deficit loop walks the descending order
ParetoDistributionDescendingDeficit(n, k, smp, bel, m, order) ==
    IF k <= 0 THEN <<>>
    ELSE LET weights == ParetoWeights(smp)
             distribution == EnsureMinimum(Truncate(weights, n, bel), m)
         IN  Adjust(distribution, n, m, Reverse(order), Reverse(order))

ParetoDistribution(n, k, smp, bel, m, order) ==
    IF k <= 0 THEN <<>>
    ELSE LET weights == ParetoWeights(smp)
             distribution == EnsureMinimum(Truncate(weights, n, bel), m)
         IN  Adjust(distribution, n, m, Reverse(order), order)

\* faulty variant: the surplus goes to the highest ranks first
ZipfDistributionTailFirst(n, k, a, m) ==
    IF k <= 0 THEN <<>>
    ELSE LET weights == ZipfWeights(k, a)
             distribution == EnsureMinimum(Truncate(weights, n, ZipfBelow(n, k, a)), m)
         IN  Adjust(distribution, n, m, [i \in 1..k |-> k + 1 - i], [i \in 1..k |-> k + 1 - i])

ZipfDistribution(n, k, a, m) ==
    IF k <= 0 THEN <<>>
    ELSE LET weights == ZipfWeights(k, a)
             distribution == EnsureMinimum(Truncate(weights, n, ZipfBelow(n, k, a)), m)
         IN  Adjust(distribution, n, m, [i \in 1..k |-> i], [i \in 1..k |-> k + 1 - i])

----------------------------------------------------------------------------
(* distribute_pods_to_servers *)

DistributePodsToServers(ns, pps, strat, a, m, smp, bel, order) ==
    LET total_pods == ns * pps
        dummy_items == RangeLen(total_pods)
    IN  IF strat = "uniform" THEN Ok(UniformDistribution(dummy_items, ns))
        ELSE IF strat = "pareto" THEN Ok(ParetoDistribution(dummy_items, ns, smp, bel, m, order))
        ELSE IF strat = "zipf" THEN Ok(ZipfDistribution(dummy_items, ns, a, m))
        ELSE Raise("ValueError")

----------------------------------------------------------------------------
(* distribute_files_to_pods *)

\* faulty variant: pod_id runs over range(pod_count), from 0
RECURSIVE PodKeysFromZero(_, _)
PodKeysFromZero(pc, server_id) ==
    IF server_id > Len(pc) THEN <<>>
    ELSE [pod_id \in 1..pc[server_id] |-> <<server_id, pod_id - 1>>]
           \o PodKeysFromZero(pc, server_id + 1)

\* the (server_id, pod_id) keys in the order the nested loops visit them
RECURSIVE PodKeys(_, _)
PodKeys(pc, server_id) ==
    IF server_id > Len(pc) THEN <<>>
    ELSE [pod_id \in 1..pc[server_id] |-> <<server_id, pod_id>>]
           \o PodKeys(pc, server_id + 1)

\* source_files[lo:hi] on the list [1, ..., n]
PySlice(n, lo, hi) == [j \in 1..Max2(Min2(hi, n) - Min2(lo, n), 0) |-> Min2(lo, n) + j]

\* faulty variant: remainder is not counted down, every pod gets the extra file
UniformFileCountsNoCountdown(pods_left, files_per_pod, remainder) ==
    [j \in 1..pods_left |-> files_per_pod + (IF remainder > 0 THEN 1 ELSE 0)]

\* files_for_pod of the uniform branch, for every pod in loop order:
\* files_per_pod + (1 if remainder > 0 else 0), remainder counted down
RECURSIVE UniformFileCounts(_, _, _)
UniformFileCounts(pods_left, files_per_pod, remainder) ==
    IF pods_left = 0 THEN <<>>
    ELSE <<files_per_pod + (IF remainder > 0 THEN 1 ELSE 0)>>
           \o UniformFileCounts(pods_left - 1, files_per_pod,
                                IF remainder > 0 THEN remainder - 1 ELSE remainder)

\* file_counts of the pareto and zipf branches; with no pod the surplus loop
\* evaluates i % total_pods and raises
WeightedFileCounts(weights, n, m, bel, surplusOrder, deficitOrder) ==
    LET file_counts == EnsureMinimum(Truncate(weights, n, bel), m)
        diff == n - SumSeq(file_counts)
    IN  IF Len(weights) = 0 /\ diff # 0 THEN Raise("ZeroDivisionError")
        ELSE Ok(Adjust(file_counts, n, m, surplusOrder, deficitOrder))

\* faulty variant: file_index is not advanced, every pod is sliced from the first file
PlaceFilesNoAdvance(n, pc, file_counts) ==
    LET keys == PodKeys(pc, 1)
    IN  [key \in {keys[j] : j \in 1..Len(keys)} |->
            LET j == CHOOSE x \in 1..Len(keys) : keys[x] = key
            IN  PySlice(n, 0, file_counts[j])]

\* distribution[(server_id, pod_id)] = source_files[file_index:file_index + files_for_pod]
PlaceFiles(n, pc, file_counts) ==
    LET keys == PodKeys(pc, 1)
        file_index(j) == SumSeq(SubSeq(file_counts, 1, j - 1))
    IN  [key \in {keys[j] : j \in 1..Len(keys)} |->
            LET j == CHOOSE x \in 1..Len(keys) : keys[x] = key
            IN  PySlice(n, file_index(j), file_index(j) + file_counts[j])]

\* faulty variant: files_per_pod is computed before the strategy is looked at
FileCountsDivideFirst(n, pc, strat, a, m, smp, bel, order) ==
    LET total_pods == SumSeq(pc)
    IN  IF total_pods = 0 THEN Raise("ZeroDivisionError")
        ELSE IF strat = "uniform" THEN
            Ok(UniformFileCounts(total_pods, n \div total_pods, n % total_pods))
        ELSE IF strat = "pareto" THEN
            WeightedFileCounts(ParetoWeights(smp), n, m, bel, Reverse(order), order)
        ELSE IF strat = "zipf" THEN
            WeightedFileCounts(ZipfWeights(total_pods, a), n, m, ZipfBelow(n, total_pods, a),
                               [i \in 1..total_pods |-> i],
                               [i \in 1..total_pods |-> total_pods + 1 - i])
        ELSE Raise("ValueError")

\* the per-pod counts of the branch the strategy selects
FileCounts(n, pc, strat, a, m, smp, bel, order) ==
    LET total_pods == SumSeq(pc)
    IN  IF strat = "uniform" THEN
            IF total_pods = 0 THEN Raise("ZeroDivisionError")
            ELSE Ok(UniformFileCounts(total_pods, n \div total_pods, n % total_pods))
        ELSE IF strat = "pareto" THEN
            WeightedFileCounts(ParetoWeights(smp), n, m, bel, Reverse(order), order)
        ELSE IF strat = "zipf" THEN
            WeightedFileCounts(ZipfWeights(total_pods, a), n, m, ZipfBelow(n, total_pods, a),
                               [i \in 1..total_pods |-> i],
                               [i \in 1..total_pods |-> total_pods + 1 - i])
        ELSE Raise("ValueError")

\* the placement loop on the counts of the branch, or the exception of the branch
Placement(n, pc, counts) ==
    IF counts.err # "none" THEN counts
    ELSE Ok(PlaceFiles(n, pc, counts.val))

DistributeFilesToPods(n, pc, strat, a, m, smp, bel, order) ==
    Placement(n, pc, FileCounts(n, pc, strat, a, m, smp, bel, order))

----------------------------------------------------------------------------
(* get_distribution_stats.  A mean is the pair of its numerator and its    *)
(* denominator; a standard deviation is given by its square, the variance, *)
(* as such a pair.  The literal 0 of an empty list is Ratio(0, 1).         *)

Ratio(num, den) == [num |-> num, den |-> den]

\* the keys of a dict filled by the nested loops, in insertion order
RECURSIVE KeyList(_)
KeyList(keys) ==
    IF keys = {} THEN <<>>
    ELSE LET first == CHOOSE x \in keys :
                        \A y \in keys : x[1] < y[1] \/ (x[1] = y[1] /\ x[2] <= y[2])
         IN  <<first>> \o KeyList(keys \ {first})

\* the server ids of the keys, in the order the keys first show them
RECURSIVE ServerList(_)
ServerList(ids) ==
    IF ids = {} THEN <<>>
    ELSE LET first == CHOOSE x \in ids : \A y \in ids : x <= y
         IN  <<first>> \o ServerList(ids \ {first})

RECURSIVE MinSeq(_)
MinSeq(s) == IF Len(s) = 1 THEN s[1] ELSE Min2(s[1], MinSeq(Tail(s)))

RECURSIVE MaxSeq(_)
MaxSeq(s) == IF Len(s) = 1 THEN s[1] ELSE Max2(s[1], MaxSeq(Tail(s)))

\* sum(xs) / len(xs)
Mean(s) == Ratio(SumSeq(s), Len(s))

\* np.std(xs) squared: mean of the squares minus the square of the mean
Variance(s) ==
    Ratio(Len(s) * SumSeq([i \in 1..Len(s) |-> s[i] * s[i]]) - SumSeq(s) * SumSeq(s),
          Len(s) * Len(s))

\* A faulty variant of StatsFileCounts: one entry per server, the length of
\* its first pod, instead of one entry per key.
StatsFileCountsFirstPods(distribution) ==
    LET servers == ServerList({key[1] : key \in DOMAIN distribution})
    IN  [j \in 1..Len(servers) |-> Len(distribution[<<servers[j], 1>>])]

\* file_counts = [len(files) for files in distribution.values()]
StatsFileCounts(distribution) ==
    LET keys == KeyList(DOMAIN distribution)
    IN  [j \in 1..Len(keys) |-> Len(distribution[keys[j]])]

\* pod_counts: len(pods) of every server_id that has a key
StatsPodCounts(distribution) ==
    LET servers == ServerList({key[1] : key \in DOMAIN distribution})
    IN  [j \in 1..Len(servers) |->
            Cardinality({key \in DOMAIN distribution : key[1] = servers[j]})]

\* the returned dict, each entry with its own "if ... else 0"
StatsOf(distribution, pod_file_counts, server_pod_counts) ==
    [total_servers       |-> Cardinality({key[1] : key \in DOMAIN distribution}),
     total_pods          |-> Cardinality(DOMAIN distribution),
     total_files         |-> SumSeq(pod_file_counts),
     min_files_per_pod   |-> IF pod_file_counts # <<>> THEN MinSeq(pod_file_counts) ELSE 0,
     max_files_per_pod   |-> IF pod_file_counts # <<>> THEN MaxSeq(pod_file_counts) ELSE 0,
     avg_files_per_pod   |-> IF pod_file_counts # <<>> THEN Mean(pod_file_counts) ELSE Ratio(0, 1),
     std_dev_files       |-> IF pod_file_counts # <<>> THEN Variance(pod_file_counts) ELSE Ratio(0, 1),
     min_pods_per_server |-> IF server_pod_counts # <<>> THEN MinSeq(server_pod_counts) ELSE 0,
     max_pods_per_server |-> IF server_pod_counts # <<>> THEN MaxSeq(server_pod_counts) ELSE 0,
     avg_pods_per_server |-> IF server_pod_counts # <<>> THEN Mean(server_pod_counts) ELSE Ratio(0, 1),
     std_dev_pods        |-> IF server_pod_counts # <<>> THEN Variance(server_pod_counts) ELSE Ratio(0, 1)]

\* faulty variant: min() is taken without looking whether the list is empty
GetDistributionStatsUnguarded(distribution) ==
    IF DOMAIN distribution = {} THEN Raise("ValueError")
    ELSE Ok(StatsOf(distribution, StatsFileCounts(distribution),
                    StatsPodCounts(distribution)))

GetDistributionStats(distribution) ==
    Ok(StatsOf(distribution, StatsFileCounts(distribution), StatsPodCounts(distribution)))

----------------------------------------------------------------------------
(* A step takes the arguments of a call and leaves what the call returns.   *)
(* Arguments a call does not take stay 0 / <<>>.  A behaviour is one call,  *)
(* followed by get_distribution_stats on a returned assignment, or the      *)
(* chain of distribute_files: pods to servers, files to pods, statistics.   *)

\* the draws explored: one under the 0.1 clamp, 0.2 and MaxSample tenths
SampleValues == {0, 2, MaxSample}

SampleVectors(k) == IF k <= 0 THEN {<<>>} ELSE [1..k -> SampleValues]

PodCountVectors ==
    {pc \in UNION {[1..len -> 0..MaxPods] : len \in 0..MaxServers} :
        SumSeq(pc) <= MaxPods}

\* the pareto draws of distribute_files_to_pods are explored for at most
\* MaxParetoPods pods
FileSampleVectors(strat, total_pods) ==
    IF strat # "pareto" THEN {<<>>}
    ELSE IF total_pods <= MaxParetoPods THEN SampleVectors(total_pods)
    ELSE {}

NoCall ==
    /\ op = "none"
    /\ n_items = 0
    /\ count = 0
    /\ alpha = 0
    /\ min_count = 0
    /\ samples = <<>>
    /\ below = {}
    /\ sorted_indices = <<>>
    /\ strategy = "none"
    /\ pod_strategy = "none"
    /\ stats = Ok(<<>>)
    /\ pod_counts = <<>>
    /\ pods_per_server = 0
    /\ files_for_pod = <<>>
    /\ result = Ok(<<>>)

NoGrant ==
    /\ gpc = "none"
    /\ num_files = 0
    /\ social_agents = <<>>
    /\ web_ids = 0
    /\ access_control = <<>>
    /\ agent_i = 0
    /\ file_i = 0
    /\ grant_err = "none"

NoRun ==
    /\ rpc = "none"
    /\ entry = "none"
    /\ config = [num_servers |-> 0, pods_per_server |-> 0, files_per_pod |-> 0]
    /\ main_sees_files = FALSE
    /\ available = 0
    /\ run_err = "none"
    /\ performed = {}

NoLaunch ==
    /\ lpc = "none"
    /\ dirs = {}
    /\ metaindex = <<>>
    /\ csv_rows = <<>>
    /\ listing = <<>>
    /\ launch_servers = <<>>
    /\ launch_idx = 0
    /\ processes = <<>>

Init == NoCall /\ NoGrant /\ NoRun /\ NoLaunch

CallUniform ==
    /\ op = "none"
    /\ \E n \in 0..MaxUniformItems, k \in -1..MaxCount :
        /\ op' = "uniform_distribution"
        /\ n_items' = n
        /\ count' = k
        /\ result' = Ok(UniformDistribution(n, k))
        /\ UNCHANGED <<launchVars, runVars, grantVars, pod_strategy, stats, alpha, min_count, samples, below, sorted_indices,
                       strategy, pod_counts, pods_per_server, files_for_pod>>

CallPareto ==
    /\ op = "none"
    /\ \E n \in 0..MaxItems, k \in -1..MaxCount, m \in 0..MaxMin :
        \E smp \in SampleVectors(k) :
            \E bel \in SUBSET ExactIdx(ParetoWeights(smp), n) :
                \E order \in ParetoOrders(n, smp, bel, m) :
                    /\ op' = "pareto_distribution"
                    /\ n_items' = n
                    /\ count' = k
                    /\ min_count' = m
                    /\ samples' = smp
                    /\ below' = bel
                    /\ sorted_indices' = order
                    /\ result' = Ok(ParetoDistribution(n, k, smp, bel, m, order))
                    /\ UNCHANGED <<launchVars, runVars, grantVars, pod_strategy, stats, alpha, strategy, pod_counts,
                                   pods_per_server, files_for_pod>>

\* item counts beyond MaxItems that zipf_distribution is also called with: for
\* 147 items, 3 groups and alpha = 2 the exact products are 108, 27 and 12
RoundedItems == {147}

CallZipf ==
    /\ op = "none"
    /\ \E n \in (0..MaxItems) \cup RoundedItems, k \in -1..MaxCount, m \in 0..MaxMin,
          a \in AlphaSet :
        /\ op' = "zipf_distribution"
        /\ n_items' = n
        /\ count' = k
        /\ alpha' = a
        /\ min_count' = m
        /\ below' = ZipfBelow(n, k, a)
        /\ result' = Ok(ZipfDistribution(n, k, a, m))
        /\ UNCHANGED <<launchVars, runVars, grantVars, pod_strategy, stats, samples, sorted_indices, strategy, pod_counts,
                       pods_per_server, files_for_pod>>

CallDistributePods ==
    /\ op = "none"
    /\ \E ns \in -1..MaxCount, pps \in 0..MaxPodsPerServer, m \in 0..MaxMin,
          strat \in StrategySet :
        \E a \in IF strat = "zipf" THEN AlphaSet ELSE {0} :
            \E smp \in IF strat = "pareto" THEN SampleVectors(ns) ELSE {<<>>} :
                \E bel \in SUBSET ExactIdx(ParetoWeights(smp), RangeLen(ns * pps)) :
                    \E order \in IF strat = "pareto" /\ ns > 0
                                  THEN ParetoOrders(RangeLen(ns * pps), smp, bel, m)
                                  ELSE {<<>>} :
                        /\ op' = "distribute_pods_to_servers"
                        /\ count' = ns
                        /\ pods_per_server' = pps
                        /\ strategy' = strat
                        /\ alpha' = a
                        /\ min_count' = m
                        /\ samples' = smp
                        /\ below' = bel
                        /\ sorted_indices' = order
                        /\ result' = DistributePodsToServers(ns, pps, strat, a, m, smp,
                                                              bel, order)
                        /\ UNCHANGED <<launchVars, runVars, grantVars, pod_strategy, stats, n_items, pod_counts, files_for_pod>>

CallDistributeFiles ==
    /\ op = "none"
    /\ \E pc \in PodCountVectors, m \in 0..MaxMin, strat \in StrategySet :
        \E n \in IF strat = "uniform" THEN 0..MaxUniformItems ELSE 0..MaxItems,
           a \in IF strat = "zipf" THEN AlphaSet ELSE {0},
           smp \in FileSampleVectors(strat, SumSeq(pc)) :
            \E bel \in SUBSET ExactIdx(ParetoWeights(smp), n) :
                \E order \in IF strat = "pareto" THEN ParetoOrders(n, smp, bel, m)
                              ELSE {<<>>} :
                    \E counts \in {FileCounts(n, pc, strat, a, m, smp, bel, order)} :
                        /\ op' = "distribute_files_to_pods"
                        /\ n_items' = n
                        /\ pod_counts' = pc
                        /\ strategy' = strat
                        /\ alpha' = a
                        /\ min_count' = m
                        /\ samples' = smp
                        /\ below' = bel
                        /\ sorted_indices' = order
                        /\ files_for_pod' = counts.val
                        /\ result' = Placement(n, pc, counts)
                        /\ UNCHANGED <<launchVars, runVars, grantVars, pod_strategy, stats, count, pods_per_server>>

\* distribute_files_to_pods on the pod counts distribute_pods_to_servers has
\* just returned, as distribute_files chains the two calls
CallDistributeFilesOnPods ==
    /\ op = "distribute_pods_to_servers"
    /\ result.err = "none"
    /\ result.val \in PodCountVectors
    /\ \E m \in 0..MaxMin, strat \in StrategySet :
        \E n \in IF strat = "uniform" THEN 0..MaxUniformItems ELSE 0..MaxItems,
           a \in IF strat = "zipf" THEN AlphaSet ELSE {0},
           smp \in FileSampleVectors(strat, SumSeq(result.val)) :
            \E bel \in SUBSET ExactIdx(ParetoWeights(smp), n) :
                \E order \in IF strat = "pareto" THEN ParetoOrders(n, smp, bel, m)
                              ELSE {<<>>} :
                    \E counts \in {FileCounts(n, result.val, strat, a, m, smp, bel, order)} :
                        /\ op' = "distribute_files_to_pods"
                        /\ n_items' = n
                        /\ pod_counts' = result.val
                        /\ pod_strategy' = strategy
                        /\ strategy' = strat
                        /\ alpha' = a
                        /\ min_count' = m
                        /\ samples' = smp
                        /\ below' = bel
                        /\ sorted_indices' = order
                        /\ files_for_pod' = counts.val
                        /\ result' = Placement(n, result.val, counts)
                        /\ UNCHANGED <<launchVars, runVars, grantVars, stats, count, pods_per_server>>

\* get_distribution_stats on the assignment distribute_files_to_pods returned
GetStats ==
    /\ op = "distribute_files_to_pods"
    /\ result.err = "none"
    /\ op' = "get_distribution_stats"
    /\ stats' = GetDistributionStats(result.val)
    /\ UNCHANGED <<launchVars, runVars, grantVars, n_items, count, alpha, min_count, samples, below,
                   sorted_indices, strategy, pod_strategy, pod_counts, pods_per_server,
                   files_for_pod, result>>

Next ==
    \/ CallUniform
    \/ CallPareto
    \/ CallZipf
    \/ CallDistributePods
    \/ CallDistributeFiles
    \/ GetStats

Spec == Init /\ [][Next]_vars

\* the two-level scenario: pods to servers, files to those pods, statistics
NextScenario ==
    \/ CallDistributePods
    \/ CallDistributeFilesOnPods
    \/ GetStats

SpecScenario == Init /\ [][NextScenario]_vars

----------------------------------------------------------------------------
(* imagineaclspecial and the regular-agent pass of distribute_files.       *)
(* A power field is [kind |-> "int", v |-> p] when int() parses it to p,   *)
(* "text" when int() raises ValueError, "none" when it raises TypeError,   *)
(* and "missing" when the agent has no power field.                        *)

PowerValues == {0, 25, 58, 100}

PowerFields ==
    {[kind |-> "int", v |-> p] : p \in PowerValues}
        \cup {[kind |-> k, v |-> 0] : k \in {"text", "none", "missing"}}

\* 2^s mod 100
RECURSIVE PowMod2(_)
PowMod2(s) == IF s = 0 THEN 1 ELSE (2 * PowMod2(s - 1)) % 100

\* the e with 100 <= power * 2^e < 200, so power/100 = 1.xxx * 2^(-e)
RECURSIVE BinExp(_, _)
BinExp(power, e) == IF power * Pow(2, e) >= 100 THEN e ELSE BinExp(power, e + 1)

\* the smallest power of two >= m: twice the binade of the doubles just under m
RECURSIVE BinadeAbove(_, _)
BinadeAbove(m, g) == IF g >= m THEN g ELSE BinadeAbove(m, 2 * g)

\* math.floor(len(files) * (power / 100)) in IEEE double arithmetic, for
\* 0 <= power <= 100.  power / 100 is rounded to 53 bits: with
\* rem = power * 2^(52+e) mod 100, it is rounded down by rem/100 units in the
\* last place when 0 < rem < 50.  The product differs from len(files)*power/100
\* by less than 1/100 and can only change the floor when that quotient is an
\* integer m >= 1: the product then rounds to a double under m exactly when
\* len(files) * rem/100 * 2^-(52+e) exceeds half the spacing of the doubles
\* under m.
NumFilesToAccess(n, power) ==
    LET exact == (n * power) \div 100
    IN  IF power <= 0 \/ n <= 0 THEN exact
        ELSE LET e == BinExp(power, 0)
                 rem == (power * PowMod2(52 + e)) % 100
             IN  IF /\ (n * power) % 100 = 0
                    /\ exact > 0
                    /\ rem \in 1..49
                    /\ n * rem * 4 > 100 * Pow(2, e) * BinadeAbove(exact, 1)
                 THEN exact - 1
                 ELSE exact

\* power = int(agent['power']), 0 on ValueError and TypeError
ParsePower(field) == IF field.kind = "int" THEN field.v ELSE 0

\* the outcomes of random.sample(files, c): every c-subset of the files; for a
\* list longer than MaxFiles + 1 only the c consecutive files from any start
SampleFiles(n, c) ==
    IF n <= MaxFiles + 1 THEN {S \in SUBSET (1..n) : Cardinality(S) = c}
    ELSE {{((start + j - 2) % n) + 1 : j \in 1..c} : start \in 1..n}

\* faulty variant: the number of regular agents is drawn from 0..len(web_ids)
RegularAccessFromZero(w) == SUBSET (1..w)

\* the outcomes of random.sample(web_ids, random.randint(1, len(web_ids)))
RegularAccess(w) == {S \in SUBSET (1..w) : Cardinality(S) >= 1}

SocialId(i) == <<"sagent", i>>

RegularId(j) == <<"agent", j>>

\* faulty variant: the sampled agents are appended twice
RECURSIVE IdListRepeating(_)
IdListRepeating(S) ==
    IF S = {} THEN <<>>
    ELSE LET j == CHOOSE x \in S : \A y \in S : x <= y
         IN  <<RegularId(j), RegularId(j)>> \o IdListRepeating(S \ {j})

\* a set of regular agents as the list that extend() appends
RECURSIVE IdList(_)
IdList(S) ==
    IF S = {} THEN <<>>
    ELSE LET j == CHOOSE x \in S : \A y \in S : x <= y
         IN  <<RegularId(j)>> \o IdList(S \ {j})

\* faulty variant: the regular agents are assigned, not appended
AssignAccess(acl, f, regular_access) ==
    [acl EXCEPT ![f] = IdList(regular_access)]

\* access_control[dest_str].extend(regular_access)
ExtendAccess(acl, f, regular_access) ==
    [acl EXCEPT ![f] = @ \o IdList(regular_access)]

AgentLists == UNION {[1..len -> PowerFields] : len \in 0..MaxAgents}

\* imagineaclspecial is entered with the file mappings and the social agents
InitAcl ==
    /\ NoCall
    /\ NoRun
    /\ NoLaunch
    /\ gpc = "seed"
    /\ \/ num_files \in 0..MaxFiles /\ social_agents \in AgentLists
       \/ num_files = 50 /\ social_agents \in [1..1 -> PowerFields]
    /\ web_ids = 0
    /\ access_control = <<>>
    /\ agent_i = 0
    /\ file_i = 0
    /\ grant_err = "none"

\* the agents init_sanode_list builds: each has power = str(percs[i]), which
\* int() parses or rejects with ValueError
SanodeLists ==
    UNION {[1..len -> {field \in PowerFields : field.kind \in {"int", "text"}}] :
              len \in 0..MaxAgents}

\* the file mappings explored for the regular pass, which multiplies the
\* outcomes of every file
MaxGrantFiles == 2

\* distribute_files reaches the call of imagineaclspecial
InitGrant ==
    /\ NoCall
    /\ NoRun
    /\ NoLaunch
    /\ gpc = "seed"
    /\ num_files \in 0..MaxGrantFiles
    /\ social_agents \in SanodeLists
    /\ web_ids \in 0..MaxWebIds
    /\ access_control = <<>>
    /\ agent_i = 0
    /\ file_i = 0
    /\ grant_err = "none"

\* for source_path, dest_path in files: access_control[str(dest_path)] = []
SeedAccessControl ==
    /\ gpc = "seed"
    /\ access_control' = [f \in 1..num_files |-> <<>>]
    /\ agent_i' = 1
    /\ gpc' = "agents"
    /\ UNCHANGED <<launchVars, runVars, allocVars, num_files, social_agents, web_ids, file_i, grant_err>>

\* one pass of the loop over social_agents
GrantAgent ==
    /\ gpc = "agents"
    /\ agent_i <= Len(social_agents)
    /\ IF social_agents[agent_i].kind = "missing"
       THEN /\ gpc' = "error"
            /\ grant_err' = "KeyError"
            /\ UNCHANGED <<access_control, agent_i>>
       ELSE LET power == ParsePower(social_agents[agent_i])
                num_files_to_access == NumFilesToAccess(num_files, power)
            IN  /\ IF num_files_to_access > 0
                   THEN \E selected_files \in SampleFiles(num_files, num_files_to_access) :
                            access_control' =
                                [f \in 1..num_files |->
                                    IF f \in selected_files
                                    THEN Append(access_control[f], SocialId(agent_i))
                                    ELSE access_control[f]]
                   ELSE UNCHANGED access_control
                /\ agent_i' = agent_i + 1
                /\ UNCHANGED <<gpc, grant_err>>
    /\ UNCHANGED <<launchVars, runVars, allocVars, num_files, social_agents, web_ids, file_i>>

\* return access_control
ReturnAccessControl ==
    /\ gpc = "agents"
    /\ agent_i > Len(social_agents)
    /\ gpc' = "returned"
    /\ file_i' = 1
    /\ UNCHANGED <<launchVars, runVars, allocVars, num_files, social_agents, web_ids, access_control,
                   agent_i, grant_err>>

\* one pass of the loop over file_mappings that adds the regular agents
GrantRegular ==
    /\ gpc = "returned"
    /\ file_i <= num_files
    /\ IF web_ids = 0
       THEN /\ gpc' = "error"
            /\ grant_err' = "ValueError"
            /\ UNCHANGED <<access_control, file_i>>
       ELSE /\ \E regular_access \in RegularAccess(web_ids) :
                access_control' = ExtendAccess(access_control, file_i, regular_access)
            /\ file_i' = file_i + 1
            /\ UNCHANGED <<gpc, grant_err>>
    /\ UNCHANGED <<launchVars, runVars, allocVars, num_files, social_agents, web_ids, agent_i>>

\* the loop over file_mappings is over
FinishRegular ==
    /\ gpc = "returned"
    /\ file_i > num_files
    /\ gpc' = "done"
    /\ UNCHANGED <<launchVars, runVars, allocVars, num_files, social_agents, web_ids, access_control,
                   agent_i, file_i, grant_err>>

NextAcl ==
    \/ SeedAccessControl
    \/ GrantAgent
    \/ ReturnAccessControl

SpecAcl == InitAcl /\ [][NextAcl]_vars

NextGrant ==
    \/ SeedAccessControl
    \/ GrantAgent
    \/ ReturnAccessControl
    \/ GrantRegular
    \/ FinishRegular

SpecGrant == InitGrant /\ [][NextGrant]_vars

----------------------------------------------------------------------------
(* The experiment run: run_experiment of main.py calls distribute_files of  *)
(* generate_structure.py, which can also be started on its own.  The two    *)
(* resolve the source directory differently (the working directory or the   *)
(* config directory against PROJECT_ROOT), so each glob has its own result. *)
(* The steps of distribute_files after its checks are kept as the effects   *)
(* they have, in program order; any of them can end in an exception.        *)

MaxAvailable == 4
MaxConfig == 2

NoTxtFiles == "No .txt files found in source directory"
NotEnoughSourceFiles == "Not enough source files"
OtherError == "other"

\* total_files_needed of distribute_files
TotalFilesNeeded(cfg) == cfg.num_servers * cfg.pods_per_server * cfg.files_per_pod

\* A faulty variant of NotEnough: lets a run that is one file short pass.
NotEnoughOffByOne(found, needed) == found + 1 < needed

\* the condition of the second check of distribute_files
NotEnough(found, needed) == found < needed

\* what distribute_files does after its checks, in program order
RunSteps == <<"pods", "files", "grants", "copy", "save">>

\* the first step of RunSteps the run has not performed, 0 when none is left
NextStep ==
    IF \A j \in 1..Len(RunSteps) : RunSteps[j] \in performed THEN 0
    ELSE CHOOSE j \in 1..Len(RunSteps) :
            /\ RunSteps[j] \notin performed
            /\ \A h \in 1..(j - 1) : RunSteps[h] \in performed

Configs == [num_servers : 0..MaxConfig, pods_per_server : 0..MaxConfig,
            files_per_pod : 0..MaxConfig]

InitRun ==
    /\ NoCall
    /\ NoGrant
    /\ NoLaunch
    /\ entry \in {"run_experiment", "distribute_files"}
    /\ rpc = IF entry = "run_experiment" THEN "main" ELSE "distribute_files"
    /\ config \in Configs
    /\ main_sees_files \in BOOLEAN
    /\ available \in 0..MaxAvailable
    /\ run_err = "none"
    /\ performed = {}

\* run_experiment looks for .txt files itself before it calls distribute_files
MainSourceCheck ==
    /\ rpc = "main"
    /\ IF ~main_sees_files
       THEN rpc' = "raised" /\ run_err' = NoTxtFiles
       ELSE rpc' = "distribute_files" /\ run_err' = run_err
    /\ UNCHANGED <<launchVars, allocVars, grantVars, entry, config, main_sees_files, available, performed>>

\* distribute_files creates the base directory and lists the source files
GlobSources ==
    /\ rpc = "distribute_files"
    /\ performed' = performed \cup {"base_dir"}
    /\ IF available = 0
       THEN rpc' = "failed" /\ run_err' = NoTxtFiles
       ELSE rpc' = "count" /\ run_err' = run_err
    /\ UNCHANGED <<launchVars, allocVars, grantVars, entry, config, main_sees_files, available>>

\* distribute_files compares the files it found with the files it needs
CheckEnough ==
    /\ rpc = "count"
    /\ IF NotEnough(available, TotalFilesNeeded(config))
       THEN rpc' = "failed" /\ run_err' = NotEnoughSourceFiles
       ELSE rpc' = "steps" /\ run_err' = run_err
    /\ UNCHANGED <<launchVars, allocVars, grantVars, entry, config, main_sees_files, available, performed>>

\* the next step of distribute_files is carried out
RunStep ==
    /\ rpc = "steps"
    /\ NextStep # 0
    /\ performed' = performed \cup {RunSteps[NextStep]}
    /\ UNCHANGED <<launchVars, allocVars, grantVars, rpc, entry, config, main_sees_files, available, run_err>>

\* the next step of distribute_files ends in an exception
RunStepFails ==
    /\ rpc = "steps"
    /\ NextStep # 0
    /\ rpc' = "failed"
    /\ run_err' = OtherError
    /\ UNCHANGED <<launchVars, allocVars, grantVars, entry, config, main_sees_files, available, performed>>

\* distribute_files returns access_control and webid_structure
ReturnStructure ==
    /\ rpc = "steps"
    /\ NextStep = 0
    /\ rpc' = "distributed"
    /\ UNCHANGED <<launchVars, allocVars, grantVars, entry, config, main_sees_files, available, run_err, performed>>

\* the exception of distribute_files reaches its caller: run_experiment returns
\* on the not-enough message and raises again on every other one
HandleError ==
    /\ rpc = "failed"
    /\ rpc' = IF entry = "run_experiment" /\ run_err = NotEnoughSourceFiles
              THEN "returned" ELSE "raised"
    /\ UNCHANGED <<launchVars, allocVars, grantVars, entry, config, main_sees_files, available, run_err, performed>>

\* run_experiment writes experiment_results.json; the script alone just ends
WriteResults ==
    /\ rpc = "distributed"
    /\ rpc' = "returned"
    /\ performed' = IF entry = "run_experiment" THEN performed \cup {"results"} ELSE performed
    /\ UNCHANGED <<launchVars, allocVars, grantVars, entry, config, main_sees_files, available, run_err>>

NextRun ==
    \/ MainSourceCheck
    \/ GlobSources
    \/ CheckEnough
    \/ RunStep
    \/ RunStepFails
    \/ ReturnStructure
    \/ HandleError
    \/ WriteResults

SpecRun == InitRun /\ [][NextRun]_vars

----------------------------------------------------------------------------
(* Generation and launch.  distribute_files leaves one directory per entry  *)
(* of pod_counts, each with a metaindex.csv, and LTOVERLAYSERVERS.csv;      *)
(* main of solid_launcher.py lists the directories, sorts them by their     *)
(* number and starts one server per directory.  A directory name is kept as *)
(* the decimal digits that follow "server".                                 *)

MaxLaunchServers == 11

BASE_PORT == 3001
MetaindexBasePort == 3000
starting_port == 3001

\* str(v) of f"server{server_id}": the decimal digits of v, highest first
RECURSIVE Digits(_)
Digits(v) == IF v < 10 THEN <<v>> ELSE Digits(v \div 10) \o <<v % 10>>

ServerName(server_id) == Digits(server_id)

\* server_number: int(name.replace("server", ""))
RECURSIVE ServerNumber(_)
ServerNumber(name) ==
    IF name = <<>> THEN 0
    ELSE 10 * ServerNumber(SubSeq(name, 1, Len(name) - 1)) + name[Len(name)]

\* a < b for two strings that start with "server", or two tuples of integers
RECURSIVE NameLess(_, _)
NameLess(a, b) ==
    IF b = <<>> THEN FALSE
    ELSE IF a = <<>> THEN TRUE
    ELSE IF a[1] # b[1] THEN a[1] < b[1]
    ELSE NameLess(Tail(a), Tail(b))

\* sorted(names, key=...) as a stable insertion: the name with key k goes
\* behind every entry whose key is not greater than k
RECURSIVE InsertSorted(_, _)
InsertSorted(sorted, x) ==
    IF sorted = <<>> THEN <<x>>
    ELSE IF NameLess(x.key, sorted[1].key) THEN <<x>> \o sorted
    ELSE <<sorted[1]>> \o InsertSorted(Tail(sorted), x)

RECURSIVE SortedPairs(_)
SortedPairs(pairs) ==
    IF pairs = <<>> THEN <<>>
    ELSE InsertSorted(SortedPairs(SubSeq(pairs, 1, Len(pairs) - 1)), pairs[Len(pairs)])

SortedByKey(names, keys) ==
    LET pairs == SortedPairs([j \in 1..Len(names) |-> [key |-> keys[j], name |-> names[j]]])
    IN  [j \in 1..Len(names) |-> pairs[j].name]

\* A faulty variant of DiscoverServers: sorted() without the key, by name.
DiscoverServersByName(names) ==
    SortedByKey(names, [j \in 1..Len(names) |-> names[j]])

\* discover_servers on what os.listdir returned
DiscoverServers(names) ==
    SortedByKey(names, [j \in 1..Len(names) |-> <<ServerNumber(names[j])>>])

\* the names of a set in a sequence, by name
RECURSIVE NameOrder(_)
NameOrder(names) ==
    IF names = {} THEN <<>>
    ELSE LET first == CHOOSE x \in names : \A y \in names : ~NameLess(y, x)
         IN  <<first>> \o NameOrder(names \ {first})

\* os.listdir returns the names in any order; the orders explored are the
\* rotations of the order by name
Listings(names) ==
    LET byName == NameOrder(names)
        len == Len(byName)
    IN  IF len = 0 THEN {<<>>}
        ELSE {[j \in 1..len |-> byName[((j + shift - 1) % len) + 1]] : shift \in 0..(len - 1)}

LaunchConfigs == [num_servers : 0..MaxLaunchServers, pods_per_server : 0..MaxPodsPerServer,
                  files_per_pod : {1}]

\* distribute_files has passed its checks and computed pod_counts
InitLaunch ==
    /\ NoCall
    /\ NoGrant
    /\ rpc = "none"
    /\ entry = "none"
    /\ config \in LaunchConfigs
    /\ main_sees_files = FALSE
    /\ available = 0
    /\ run_err = "none"
    /\ performed = {}
    /\ lpc = "generate"
    /\ dirs = {}
    /\ metaindex = <<>>
    /\ csv_rows = <<>>
    /\ listing = <<>>
    /\ launch_servers = <<>>
    /\ launch_idx = 0
    /\ processes = <<>>

\* the copy loop of distribute_files with create_server_metaindex, and
\* create_ltoverlay_servers_csv, for the pod counts of the uniform strategy
GenerateStructure ==
    /\ lpc = "generate"
    /\ LET counts == DistributePodsToServers(config.num_servers, config.pods_per_server,
                                             "uniform", 0, 1, <<>>, {}, <<>>).val
       IN  /\ dirs' = {ServerName(server_id) : server_id \in 1..Len(counts)}
           /\ metaindex' = [server_id \in 1..Len(counts) |->
                               [pod_id \in 1..counts[server_id] |->
                                   [port |-> MetaindexBasePort + server_id, pod |-> pod_id]]]
    /\ csv_rows' = [server_id \in 1..config.num_servers |->
                       [server_name |-> ServerName(server_id),
                        port |-> starting_port + server_id - 1]]
    /\ lpc' = "discover"
    /\ UNCHANGED <<allocVars, grantVars, runVars, listing, launch_servers, launch_idx, processes>>

\* main lists and sorts the server directories, and exits when there is none
Discover ==
    /\ lpc = "discover"
    /\ \E names \in Listings(dirs) :
        /\ listing' = names
        /\ launch_servers' = DiscoverServers(names)
        /\ lpc' = IF DiscoverServers(names) = <<>> THEN "exited" ELSE "free_ports"
    /\ UNCHANGED <<allocVars, grantVars, runVars, dirs, metaindex, csv_rows, launch_idx, processes>>

\* the port BASE_PORT + idx is free or gets freed
FreePort ==
    /\ lpc = "free_ports"
    /\ launch_idx < Len(launch_servers)
    /\ launch_idx' = launch_idx + 1
    /\ UNCHANGED <<allocVars, grantVars, runVars, lpc, dirs, metaindex, csv_rows, listing,
                   launch_servers, processes>>

\* the port BASE_PORT + idx stays in use: sys.exit(1)
FreePortFails ==
    /\ lpc = "free_ports"
    /\ launch_idx < Len(launch_servers)
    /\ lpc' = "exited"
    /\ UNCHANGED <<allocVars, grantVars, runVars, dirs, metaindex, csv_rows, listing,
                   launch_servers, launch_idx, processes>>

\* all required ports are free
PortsFree ==
    /\ lpc = "free_ports"
    /\ launch_idx = Len(launch_servers)
    /\ lpc' = "launch"
    /\ launch_idx' = 0
    /\ UNCHANGED <<allocVars, grantVars, runVars, dirs, metaindex, csv_rows, listing,
                   launch_servers, processes>>

\* one turn of the launch loop: server_name gets the port BASE_PORT + idx
LaunchServer ==
    /\ lpc = "launch"
    /\ launch_idx < Len(launch_servers)
    /\ processes' = Append(processes, [server_name |-> launch_servers[launch_idx + 1],
                                       port |-> BASE_PORT + launch_idx])
    /\ launch_idx' = launch_idx + 1
    /\ UNCHANGED <<allocVars, grantVars, runVars, lpc, dirs, metaindex, csv_rows, listing,
                   launch_servers>>

\* all servers are launched, main waits for a signal
AllLaunched ==
    /\ lpc = "launch"
    /\ launch_idx = Len(launch_servers)
    /\ lpc' = "running"
    /\ UNCHANGED <<allocVars, grantVars, runVars, dirs, metaindex, csv_rows, listing,
                   launch_servers, launch_idx, processes>>

\* shutdown: every server is terminated
Shutdown ==
    /\ lpc = "running"
    /\ lpc' = "exited"
    /\ processes' = <<>>
    /\ UNCHANGED <<allocVars, grantVars, runVars, dirs, metaindex, csv_rows, listing,
                   launch_servers, launch_idx>>

NextLaunch ==
    \/ GenerateStructure
    \/ Discover
    \/ FreePort
    \/ FreePortFails
    \/ PortsFree
    \/ LaunchServer
    \/ AllLaunched
    \/ Shutdown

SpecLaunch == InitLaunch /\ [][NextLaunch]_vars

----------------------------------------------------------------------------
(* The steps of the weighted call the state holds, recomputed from its      *)
(* arguments: the weights, the clamped estimates and diff.                  *)

WeightedCall == op \in {"pareto_distribution", "zipf_distribution"}

CallWeights ==
    IF op = "pareto_distribution" THEN ParetoWeights(samples)
    ELSE ZipfWeights(count, alpha)

RawEstimates == Truncate(CallWeights, n_items, below)

ClampedEstimates == EnsureMinimum(RawEstimates, min_count)

Diff == n_items - SumSeq(ClampedEstimates)

FilesCall == op = "distribute_files_to_pods"

\* every (key, position) of the returned assignment
Positions ==
    UNION {{<<key, j>> : j \in 1..Len(result.val[key])} : key \in DOMAIN result.val}

----------------------------------------------------------------------------
(* Properties of the allocator *)

\* C1: every pareto or zipf allocation with k >= 1 groups and k * min_count <= n
\* returns counts that sum to exactly n, and so do the counts the pareto and
\* zipf branches of distribute_files_to_pods compute.
C1_Conservation ==
    /\ (WeightedCall /\ count >= 1 /\ count * min_count <= n_items)
          => SumSeq(result.val) = n_items
    /\ (/\ FilesCall
        /\ strategy \in {"pareto", "zipf"}
        /\ SumSeq(pod_counts) >= 1
        /\ SumSeq(pod_counts) * min_count <= n_items)
          => SumSeq(files_for_pod) = n_items

\* C2: distribute_files_to_pods over at least one pod returns an assignment in
\* which every input file occupies exactly one position of exactly one pod.
C2_NoItemLossOrDuplication ==
    (FilesCall /\ strategy \in KnownStrategies /\ SumSeq(pod_counts) >= 1)
        => /\ result.err = "none"
           /\ \A x \in 1..n_items :
                Cardinality({kj \in Positions : result.val[kj[1]][kj[2]] = x}) = 1
           /\ \A kj \in Positions : result.val[kj[1]][kj[2]] \in 1..n_items

\* C2 witness: a pareto placement whose counts exceed the files at hand, so the
\* last slices are cut short.
C2_Witness ==
    /\ FilesCall
    /\ strategy = "pareto"
    /\ result.err = "none"
    /\ n_items >= 2
    /\ SumSeq(files_for_pod) > n_items
    /\ \E key \in DOMAIN result.val : result.val[key] = <<>>

\* C3: every entry a pareto or zipf allocation returns is >= min_count: in the
\* results that sum to n, and in those the deficit loop has lowered.
C3_FloorRespect ==
    (WeightedCall /\ count >= 1 /\ (SumSeq(result.val) = n_items \/ Diff < 0))
        => \A i \in 1..count : result.val[i] >= min_count

\* C3 witness: a result that sums to n although the clamp had to raise a group.
C3_Witness ==
    /\ WeightedCall
    /\ count >= 2
    /\ min_count >= 1
    /\ SumSeq(result.val) = n_items
    /\ \E i \in 1..count : RawEstimates[i] < min_count

\* C4: uniform_distribution over n items and k >= 1 groups returns k counts,
\* the first n mod k of them floor(n/k)+1 and the others floor(n/k); they sum
\* to n and differ by at most 1.
C4_UniformFairness ==
    (op = "uniform_distribution" /\ count >= 1)
        => /\ result.err = "none"
           /\ Len(result.val) = count
           /\ \A i \in 1..count :
                result.val[i] = (n_items \div count)
                                  + (IF i <= n_items % count THEN 1 ELSE 0)
           /\ SumSeq(result.val) = n_items
           /\ \A i, j \in 1..count : result.val[i] - result.val[j] <= 1

\* C4 witness: the call with 10 items and 3 groups, which returns [4, 3, 3].
C4_Witness ==
    /\ op = "uniform_distribution"
    /\ n_items = 10
    /\ count = 3
    /\ result.val = <<4, 3, 3>>

\* C5: the counts zipf_distribution returns never increase with the rank.
C5_ZipfMonotone ==
    (op = "zipf_distribution" /\ count >= 1)
        => \A i \in 1..(count - 1) : result.val[i] >= result.val[i + 1]

\* C5 witness: a deficit correction that goes round the groups more than once,
\* skips groups at min_count and lowers another.
C5_Witness ==
    /\ op = "zipf_distribution"
    /\ count >= 2
    /\ 0 - Diff > count
    /\ result.val # ClampedEstimates
    /\ \E i \in 1..count : ClampedEstimates[i] = min_count

\* C8: with no group to fill every operation returns an empty result: the
\* three allocators and distribute_pods_to_servers an empty vector,
\* distribute_files_to_pods an empty assignment.
C8_InvalidBucketCount ==
    /\ (op \in {"uniform_distribution", "pareto_distribution", "zipf_distribution"}
        /\ count <= 0)
          => result = Ok(<<>>)
    /\ (op = "distribute_pods_to_servers" /\ strategy \in KnownStrategies /\ count <= 0)
          => result = Ok(<<>>)
    /\ (FilesCall /\ strategy \in KnownStrategies /\ SumSeq(pod_counts) = 0)
          => result = Ok(<<>>)

\* C9: distribute_pods_to_servers and distribute_files_to_pods raise ValueError
\* and return nothing for a strategy that is not uniform, pareto or zipf,
\* whatever the other arguments.
C9_UnknownStrategy ==
    (op \in {"distribute_pods_to_servers", "distribute_files_to_pods"}
     /\ strategy \notin KnownStrategies)
        => result = Raise("ValueError")

\* C9 witness: an unknown strategy with no pod and no file.
C9_Witness ==
    /\ FilesCall
    /\ strategy \notin KnownStrategies
    /\ SumSeq(pod_counts) = 0
    /\ n_items = 0
    /\ result.err = "ValueError"

\* C10: with k >= 1 and k * min_count > n, pareto_distribution and
\* zipf_distribution return k counts whose sum is not n, and raise nothing.
C10_InfeasibleFloor ==
    (WeightedCall /\ count >= 1 /\ count * min_count > n_items)
        => /\ result.err = "none"
           /\ Len(result.val) = count
           /\ SumSeq(result.val) # n_items

\* C10 witness: an infeasible floor under which the deficit loop still lowers
\* a group.
C10_Witness ==
    /\ WeightedCall
    /\ count >= 2
    /\ count * min_count > n_items
    /\ result.val # ClampedEstimates

----------------------------------------------------------------------------
(* Properties of the access grants *)

\* the identities in the grant list of file f
Granted(f) == {access_control[f][j] : j \in 1..Len(access_control[f])}

\* the files whose grant list holds the identity id
GrantedFiles(id) == {f \in 1..num_files : id \in Granted(f)}

\* C6: once the regular pass has gone over every file, every file has a
\* non-empty grant list, holding between 1 and len(web_ids) regular agents.
C6_GrantCompleteness ==
    gpc = "done"
        => \A f \in 1..num_files :
              /\ access_control[f] # <<>>
              /\ Cardinality({j \in 1..web_ids : RegularId(j) \in Granted(f)})
                    \in 1..web_ids

\* C6 witness: the regular pass is over and has filled a file that the social
\* agents, who were granted other files, had left without any grant.
C6_Witness ==
    /\ gpc = "done"
    /\ num_files >= 2
    /\ \E i \in 1..Len(social_agents) : GrantedFiles(SocialId(i)) # {}
    /\ \E f \in 1..num_files :
          /\ \A i \in 1..Len(social_agents) : SocialId(i) \notin Granted(f)
          /\ access_control[f] # <<>>

\* C7: when imagineaclspecial returns, every file is a key of the map and a
\* social agent of integer power p in 0..100 is in the grant lists of exactly
\* floor(len(files) * p / 100) files.
C7_PowerSizedGrants ==
    gpc = "returned"
        => /\ DOMAIN access_control = 1..num_files
           /\ \A i \in 1..Len(social_agents) :
                social_agents[i].kind = "int"
                    => Cardinality(GrantedFiles(SocialId(i)))
                          = (num_files * social_agents[i].v) \div 100

----------------------------------------------------------------------------
(* Properties of the two-level scenario and of the statistics *)

\* C11: with the uniform strategy at both levels, S >= 1 servers and P >= 1
\* pods per server, distribute_pods_to_servers returns P for every server, and
\* n files over those S*P pods give the first n mod (S*P) pods in (server, pod)
\* order floor(n/(S*P))+1 files and the others floor(n/(S*P)), n files in all.
C11_HierarchicalUniform ==
    /\ (/\ op = "distribute_pods_to_servers"
        /\ strategy = "uniform"
        /\ count >= 1
        /\ pods_per_server >= 1)
          => result = Ok([s \in 1..count |-> pods_per_server])
    /\ (/\ FilesCall
        /\ pod_strategy = "uniform"
        /\ strategy = "uniform"
        /\ count >= 1
        /\ pods_per_server >= 1)
          => LET total == count * pods_per_server
                 pods == (1..count) \X (1..pods_per_server)
                 rank(key) == (key[1] - 1) * pods_per_server + key[2]
             IN  /\ result.err = "none"
                 /\ DOMAIN result.val = pods
                 /\ \A key \in pods :
                       Len(result.val[key]) =
                           (n_items \div total)
                             + (IF rank(key) <= n_items % total THEN 1 ELSE 0)
                 /\ SumSeq(files_for_pod) = n_items

\* C11 witness: 2 servers with 2 pods each, then 10 files: [2,2] and [3,3,2,2].
C11_Witness ==
    /\ FilesCall
    /\ pod_strategy = "uniform"
    /\ strategy = "uniform"
    /\ count = 2
    /\ pods_per_server = 2
    /\ pod_counts = <<2, 2>>
    /\ n_items = 10
    /\ files_for_pod = <<3, 3, 2, 2>>
    /\ Len(result.val[<<1, 2>>]) = 3
    /\ Len(result.val[<<2, 1>>]) = 2

\* C12: for uniform, pareto and zipf, num_servers >= 1, pods_per_server >= 1
\* and a minimum of 1 pod per server, distribute_pods_to_servers returns
\* num_servers counts that sum to num_servers * pods_per_server.
C12_PodTotal ==
    (/\ op = "distribute_pods_to_servers"
     /\ strategy \in KnownStrategies
     /\ count >= 1
     /\ pods_per_server >= 1
     /\ min_count = 1)
        => /\ result.err = "none"
           /\ Len(result.val) = count
           /\ SumSeq(result.val) = count * pods_per_server

\* C13: get_distribution_stats on an empty assignment raises nothing and
\* reports 0 for every statistic: the totals, and the minimum, maximum, mean
\* and standard deviation of the files per pod and of the pods per server.
C13_EmptyStats ==
    (op = "get_distribution_stats" /\ DOMAIN result.val = {})
        => /\ stats.err = "none"
           /\ \A field \in {"total_servers", "total_pods", "total_files",
                             "min_files_per_pod", "max_files_per_pod",
                             "min_pods_per_server", "max_pods_per_server"} :
                 stats.val[field] = 0
           /\ \A field \in {"avg_files_per_pod", "std_dev_files",
                             "avg_pods_per_server", "std_dev_pods"} :
                 stats.val[field].num = 0

\* C13 witness: the statistics of the empty assignment that the zipf branch
\* returns for two servers without pods and no file.
C13_Witness ==
    /\ op = "get_distribution_stats"
    /\ strategy = "zipf"
    /\ pod_counts = <<0, 0>>
    /\ n_items = 0
    /\ DOMAIN result.val = {}
    /\ stats.err = "none"
    /\ DOMAIN stats.val # {}

----------------------------------------------------------------------------
(* Further properties of the access grants *)

\* C14: in imagineaclspecial a social agent whose power field is missing or
\* does not parse as an integer counts as power 0: the pass raises nothing and
\* the agent is in the grant list of no file.
C14_PowerDefaulting ==
    /\ grant_err = "none"
    /\ gpc = "returned"
          => \A i \in 1..Len(social_agents) :
                social_agents[i].kind # "int" => GrantedFiles(SocialId(i)) = {}

----------------------------------------------------------------------------
(* The weight-sorted correction of a pareto computation, recomputed from the *)
(* arguments the state holds: of pareto_distribution, of                     *)
(* distribute_pods_to_servers and of the pareto branch of                    *)
(* distribute_files_to_pods.                                                 *)

ParetoCall ==
    \/ op = "pareto_distribution"
    \/ op = "distribute_pods_to_servers" /\ strategy = "pareto"
    \/ FilesCall /\ strategy = "pareto" /\ result.err = "none"

ParetoN ==
    IF op = "distribute_pods_to_servers" THEN RangeLen(count * pods_per_server)
    ELSE n_items

\* the counts the computation ended with
ParetoCounts == IF FilesCall THEN files_for_pod ELSE result.val

ParetoClamped ==
    EnsureMinimum(Truncate(ParetoWeights(samples), ParetoN, below), min_count)

ParetoDiff == ParetoN - SumSeq(ParetoClamped)

\* units the correction added to bucket i (removed, when negative)
Added(i) == ParetoCounts[i] - ParetoClamped[i]

\* place of bucket i in what np.argsort(weights) returned
Place(i) == CHOOSE r \in 1..Len(sorted_indices) : sorted_indices[r] = i

\* visits the deficit loop pays to bucket i
DeficitVisits(i) ==
    Cardinality({t \in 0..(0 - ParetoDiff - 1) :
                    sorted_indices[(t % Len(samples)) + 1] = i})

\* C15 as stated: with diff > 0 the surplus units go out one at a time by
\* descending weight, and of two buckets of equal weight the one with the
\* lower index receives its unit first.
C15_SurplusOrder ==
    (ParetoCall /\ Len(samples) >= 1 /\ ParetoDiff > 0)
        => LET w == ParetoWeights(samples)
               k == Len(samples)
           IN  /\ SumSeq(ParetoCounts) - SumSeq(ParetoClamped) = ParetoDiff
               /\ \A i, j \in 1..k :
                     (w[i] > w[j] \/ (w[i] = w[j] /\ i < j))
                        => Added(i) - Added(j) \in {0, 1}

\* C15 amended: with diff > 0 the surplus units go out one at a time by
\* descending weight; of two buckets of equal weight the one np.argsort lists
\* later receives its unit first, whatever their indices.
C15_SurplusByWeight ==
    (ParetoCall /\ Len(samples) >= 1 /\ ParetoDiff > 0)
        => LET w == ParetoWeights(samples)
               k == Len(samples)
           IN  /\ SumSeq(ParetoCounts) - SumSeq(ParetoClamped) = ParetoDiff
               /\ \A i, j \in 1..k :
                     (w[i] > w[j] \/ (w[i] = w[j] /\ Place(i) > Place(j)))
                        => Added(i) - Added(j) \in {0, 1}

\* C15 witness: a surplus that does not go round, shared by buckets of equal
\* weight of which the one with the higher index has received a unit and the
\* one with the lower index none.
C15_Witness ==
    /\ ParetoCall
    /\ Len(samples) >= 3
    /\ ParetoDiff > 0
    /\ \E i, j \in 1..Len(samples) :
          /\ i < j
          /\ ParetoWeights(samples)[i] = ParetoWeights(samples)[j]
          /\ Added(i) = 0
          /\ Added(j) = 1
    /\ \E i, j \in 1..Len(samples) :
          /\ ParetoWeights(samples)[i] > ParetoWeights(samples)[j]
          /\ Added(i) = 1
          /\ Added(j) = 0

\* C16: with diff < 0 the buckets are visited cyclically by ascending weight
\* for exactly |diff| visits, a visit takes one unit from a bucket only while
\* it is above min_count, and so of two buckets the lighter one has lost at
\* least as many units as the heavier one unless it has reached min_count.
C16_DeficitOrder ==
    (ParetoCall /\ Len(samples) >= 1 /\ ParetoDiff < 0)
        => LET w == ParetoWeights(samples)
               k == Len(samples)
           IN  /\ \A i \in 1..k :
                     0 - Added(i) = Min2(DeficitVisits(i), ParetoClamped[i] - min_count)
               /\ \A i, j \in 1..k :
                     w[i] < w[j]
                        => /\ DeficitVisits(i) - DeficitVisits(j) \in {0, 1}
                           /\ \/ 0 - Added(i) >= 0 - Added(j)
                              \/ ParetoCounts[i] = min_count

\* C16 witness: a deficit loop that finds the lighter bucket at min_count and
\* takes a unit from a heavier one.
C16_Witness ==
    /\ ParetoCall
    /\ Len(samples) >= 2
    /\ ParetoDiff < 0
    /\ \E i, j \in 1..Len(samples) :
          /\ ParetoWeights(samples)[i] < ParetoWeights(samples)[j]
          /\ ParetoCounts[i] = min_count
          /\ Added(i) > Added(j)

----------------------------------------------------------------------------
(* The rank-order correction of a zipf computation *)

ZipfCall ==
    \/ op = "zipf_distribution" /\ count >= 1
    \/ FilesCall /\ strategy = "zipf" /\ result.err = "none" /\ SumSeq(pod_counts) >= 1

ZipfK == IF FilesCall THEN SumSeq(pod_counts) ELSE count

ZipfCounts == IF FilesCall THEN files_for_pod ELSE result.val

ZipfClamped ==
    EnsureMinimum(Truncate(ZipfWeights(ZipfK, alpha), n_items,
                           ZipfBelow(n_items, ZipfK, alpha)), min_count)

\* C17: what a zipf computation returns is what the weight-sorted correction
\* (surplus by descending weight, deficit by ascending weight) makes of the
\* same weights, n and min_count.
C17_ZipfRankOrder ==
    ZipfCall
        => \A order \in ArgSort(ZipfWeights(ZipfK, alpha)) :
              ZipfCounts = Adjust(ZipfClamped, n_items, min_count, Reverse(order), order)

\* C17 witness: a zipf computation over three or more groups whose surplus
\* loop has raised some groups and not others.
C17_Witness ==
    /\ ZipfCall
    /\ ZipfK >= 3
    /\ n_items > SumSeq(ZipfClamped)
    /\ \E i, j \in 1..ZipfK :
          /\ ZipfCounts[i] > ZipfClamped[i]
          /\ ZipfCounts[j] = ZipfClamped[j]

----------------------------------------------------------------------------
(* Length of the correction loop *)

\* C18 as stated: for k >= 1, n >= 0 and min_count >= 0 the correction loop of
\* pareto_distribution and zipf_distribution runs |diff| <= n times.
C18_BoundedCorrection ==
    (WeightedCall /\ count >= 1)
        => (IF Diff >= 0 THEN Diff ELSE 0 - Diff) <= n_items

\* C18 amended: for k >= 1, min_count >= 0 and k * min_count <= n the
\* correction loop runs |diff| <= n times.
C18_BoundedFeasibleCorrection ==
    (WeightedCall /\ count >= 1 /\ count * min_count <= n_items)
        => (IF Diff >= 0 THEN Diff ELSE 0 - Diff) <= n_items

\* C18 witness: a feasible floor under which the deficit loop runs twice or
\* more.
C18_Witness ==
    /\ WeightedCall
    /\ count >= 2
    /\ count * min_count <= n_items
    /\ Diff <= 0 - 2

----------------------------------------------------------------------------
(* Placement of the files *)

\* the count vector the standalone allocator of the strategy returns for the
\* arguments of the distribute_files_to_pods call
StandaloneCounts ==
    IF strategy = "uniform" THEN UniformDistribution(n_items, SumSeq(pod_counts))
    ELSE IF strategy = "pareto"
    THEN ParetoDistribution(n_items, SumSeq(pod_counts), samples, below, min_count,
                            sorted_indices)
    ELSE ZipfDistribution(n_items, SumSeq(pod_counts), alpha, min_count)

\* C19: distribute_files_to_pods over at least one pod puts into the j-th pod,
\* in (server, pod) order, as many files as entry j of the count vector the
\* standalone allocator of the strategy returns for the same n, k and
\* min_count.
C19_SizesFollowCounts ==
    (FilesCall /\ strategy \in KnownStrategies /\ SumSeq(pod_counts) >= 1)
        => /\ result.err = "none"
           /\ LET keys == KeyList(DOMAIN result.val)
              IN  /\ Len(keys) = Len(StandaloneCounts)
                  /\ \A j \in 1..Len(keys) :
                        Len(result.val[keys[j]]) = StandaloneCounts[j]

\* the contents of the pods of an assignment, one after the other in the order
\* of the key list
RECURSIVE Concat(_, _)
Concat(assignment, keys) ==
    IF keys = <<>> THEN <<>>
    ELSE assignment[Head(keys)] \o Concat(assignment, Tail(keys))

\* C20: the assignment distribute_files_to_pods returns has exactly the keys
\* (s, p) with 1 <= s <= len(pod_counts) and 1 <= p <= pod_counts[s-1], pods
\* without files included, and the contents of the pods in ascending (s, p)
\* order, put end to end, are the input files in the input order.
C20_ContiguousPlacement ==
    (FilesCall /\ result.err = "none")
        => /\ DOMAIN result.val =
                 UNION {{<<s, p>> : p \in 1..pod_counts[s]} : s \in 1..Len(pod_counts)}
           /\ Cardinality(DOMAIN result.val) = SumSeq(pod_counts)
           /\ Concat(result.val, KeyList(DOMAIN result.val)) = [x \in 1..n_items |-> x]

\* C20 witness: two servers with pods, one pod with two or more files and a
\* later pod with none.
C20_Witness ==
    /\ FilesCall
    /\ result.err = "none"
    /\ Len(pod_counts) = 2
    /\ pod_counts[1] >= 1
    /\ pod_counts[2] >= 2
    /\ n_items >= 3
    /\ Len(result.val[<<1, 1>>]) >= 2
    /\ result.val[<<2, 1>>] # <<>>
    /\ result.val[<<2, 2>>] = <<>>

----------------------------------------------------------------------------
(* Properties of the grant lists over both passes *)

\* C21: no step of the power-weighted pass or of the regular pass removes an
\* identity from the grant list of a file or clears it: after every step each
\* file still is a key and its list holds every identity it held before.
C21_GrantsOnlyExtended ==
    [][\A f \in DOMAIN access_control :
          /\ f \in DOMAIN access_control'
          /\ {access_control[f][j] : j \in 1..Len(access_control[f])}
                \subseteq {access_control'[f][j] : j \in 1..Len(access_control'[f])}]_vars

\* C21 witness: the regular pass is over and a file holds a social agent of
\* the first pass next to the regular agents of the second.
C21_Witness ==
    /\ gpc = "done"
    /\ \E f \in 1..num_files :
          /\ \E i \in 1..Len(social_agents) : SocialId(i) \in Granted(f)
          /\ \E j \in 1..web_ids : RegularId(j) \in Granted(f)

\* C22: at every point of the seeding, the power-weighted pass and the
\* regular pass no identity occurs twice in the grant list of a file.
C22_NoDuplicateGrants ==
    \A f \in DOMAIN access_control :
        \A j1, j2 \in 1..Len(access_control[f]) :
            access_control[f][j1] = access_control[f][j2] => j1 = j2

\* C22 witness: after both passes a file holds two social agents and two
\* regular agents.
C22_Witness ==
    /\ gpc = "done"
    /\ \E f \in 1..num_files :
          /\ Cardinality({i \in 1..Len(social_agents) : SocialId(i) \in Granted(f)}) >= 2
          /\ Cardinality({j \in 1..web_ids : RegularId(j) \in Granted(f)}) >= 2
          /\ Len(access_control[f]) >= 4

----------------------------------------------------------------------------
(* Further properties of the statistics *)

\* get_distribution_stats has returned the statistics of an assignment that
\* distribute_files_to_pods returned
StatsCall == op = "get_distribution_stats" /\ stats.err = "none"

\* C24: for the assignment returned by distribute_files_to_pods(items,
\* pod_counts, ...), get_distribution_stats reports total_files = len(items),
\* total_pods = sum(pod_counts), total_servers = the number of servers with
\* at least one pod, and min_files_per_pod <= avg_files_per_pod <=
\* max_files_per_pod (the mean compared as a fraction).
C24_TotalsMatch ==
    StatsCall =>
        /\ stats.val.total_files = n_items
        /\ stats.val.total_pods = SumSeq(pod_counts)
        /\ stats.val.total_servers =
              Cardinality({s \in 1..Len(pod_counts) : pod_counts[s] >= 1})
        /\ stats.val.avg_files_per_pod.den >= 1
        /\ stats.val.min_files_per_pod * stats.val.avg_files_per_pod.den
              <= stats.val.avg_files_per_pod.num
        /\ stats.val.avg_files_per_pod.num
              <= stats.val.max_files_per_pod * stats.val.avg_files_per_pod.den

\* C24 witness: statistics of an assignment with a server without pods next
\* to one with several, whose pods hold different numbers of files, so that
\* the mean lies strictly between the minimum and the maximum.
C24_Witness ==
    /\ StatsCall
    /\ \E s \in 1..Len(pod_counts) : pod_counts[s] = 0
    /\ \E s \in 1..Len(pod_counts) : pod_counts[s] >= 2
    /\ stats.val.total_servers < Len(pod_counts)
    /\ stats.val.total_files = n_items
    /\ stats.val.min_files_per_pod * stats.val.avg_files_per_pod.den
          < stats.val.avg_files_per_pod.num
    /\ stats.val.avg_files_per_pod.num
          < stats.val.max_files_per_pod * stats.val.avg_files_per_pod.den

----------------------------------------------------------------------------
(* Further properties of the placement *)

\* C25: distribute_files_to_pods with the pareto or zipf strategy, at least
\* one pod and sum(pod_counts) * min_files_per_pod <= len(source_files)
\* returns an assignment in which every (server, pod) holds at least
\* min_files_per_pod files.
C25_PlacedFloor ==
    (/\ FilesCall
     /\ strategy \in {"pareto", "zipf"}
     /\ SumSeq(pod_counts) >= 1
     /\ SumSeq(pod_counts) * min_count <= n_items)
        => /\ result.err = "none"
           /\ \A key \in DOMAIN result.val : Len(result.val[key]) >= min_count

----------------------------------------------------------------------------
(* The size of the correction *)

\* a pareto or zipf computation over at least one group has ended
CorrectedCall == (ParetoCall /\ Len(samples) >= 1) \/ ZipfCall

CorrectedK == IF ParetoCall THEN Len(samples) ELSE ZipfK

CorrectedN == IF ParetoCall THEN ParetoN ELSE n_items

CorrectedClamped == IF ParetoCall THEN ParetoClamped ELSE ZipfClamped

CorrectedCounts == IF ParetoCall THEN ParetoCounts ELSE ZipfCounts

CorrectedDiff == CorrectedN - SumSeq(CorrectedClamped)

\* the counts sum to at least n, and a surplus correction hands out exactly
\* diff units, no group more than one, which brings the sum to n
NeverUnder ==
    /\ SumSeq(CorrectedCounts) >= CorrectedN
    /\ CorrectedDiff > 0
          => /\ SumSeq(CorrectedCounts) - SumSeq(CorrectedClamped) = CorrectedDiff
             /\ \A i \in 1..CorrectedK :
                   CorrectedCounts[i] - CorrectedClamped[i] \in {0, 1}
             /\ SumSeq(CorrectedCounts) = CorrectedN

\* C26 as stated: every pareto or zipf allocation with k >= 1, any n >= 0 and
\* any min_count returns counts that sum to at least n; a surplus correction
\* (diff > 0) adds exactly diff units, fewer than k in total, so that each
\* group receives at most one unit and the result sums to exactly n.
C26_NeverUnderAllocates ==
    CorrectedCall => (NeverUnder /\ (CorrectedDiff > 0 => CorrectedDiff < CorrectedK))

\* C26 (amended): the same with at most k surplus units instead of fewer
\* than k; k units are handed out when every float product lies under an
\* integer, and each group then receives exactly one.
C26_NeverUnderAtMostK ==
    CorrectedCall => (NeverUnder /\ (CorrectedDiff > 0 => CorrectedDiff <= CorrectedK))

\* C26 witness: zipf_distribution for 147 items, 3 groups, alpha = 2 and
\* min_count <= 1; the float products are 107.99.., 26.99.. and 11.99.., the
\* estimates 107, 26 and 11, diff is 3 and every group receives one unit.
C26_Witness ==
    /\ op = "zipf_distribution"
    /\ n_items = 147
    /\ count = 3
    /\ alpha = 2
    /\ below = {1, 2, 3}
    /\ CorrectedClamped = <<107, 26, 11>>
    /\ CorrectedDiff = 3
    /\ result = Ok(<<108, 27, 12>>)

----------------------------------------------------------------------------
(* Properties of the experiment run *)

\* what the run must not have done when the source files do not suffice
DistributionEffects == {"pods", "files", "grants", "copy", "results"}

\* distribute_files was entered and is over, and so is the script around it
RunOver == rpc \in {"returned", "raised"} /\ "base_dir" \in performed

\* the run of a state that is short of source files was rejected as described:
\* nothing was distributed, distribute_files failed with the not-enough
\* message, and run_experiment returned
Rejected ==
    /\ performed \cap DistributionEffects = {}
    /\ rpc \notin {"steps", "distributed"}
    /\ rpc = "failed" => run_err = NotEnoughSourceFiles
    /\ RunOver => run_err = NotEnoughSourceFiles
    /\ (RunOver /\ entry = "run_experiment") => rpc = "returned"

\* C23 as stated: whenever fewer source files are available than
\* num_servers * pods_per_server * files_per_pod, distribute_files fails with
\* the not-enough-source-files error before any pod allocation, item
\* assignment, access grant or file copy, and run_experiment then returns
\* without writing an experiment result.  This fails when no source file is
\* available at all: distribute_files raises the no-.txt-files error, which
\* run_experiment raises again.
C23_InsufficientRejected ==
    available < TotalFilesNeeded(config) => Rejected

\* C23 (amended): the same for at least one available source file.
C23_InsufficientNonEmptyRejected ==
    (1 <= available /\ available < TotalFilesNeeded(config)) => Rejected

\* run_experiment has returned after distribute_files found some files, but
\* fewer than it needs
C23_Witness ==
    /\ entry = "run_experiment"
    /\ rpc = "returned"
    /\ 1 <= available
    /\ available < TotalFilesNeeded(config)
    /\ run_err = NotEnoughSourceFiles
    /\ "base_dir" \in performed

----------------------------------------------------------------------------
(* Properties of generation and launch *)

\* main has the sorted list of server directories
Discovered == lpc \in {"free_ports", "launch", "running"}

\* the port main gives to the directory called name: BASE_PORT plus its
\* 0-based position in launch_servers
LauncherPort(name) ==
    BASE_PORT + (CHOOSE pos \in 1..Len(launch_servers) : launch_servers[pos] = name) - 1

\* C27: for the experiment directory distribute_files produces with N servers
\* (directories server1..serverN), the port the launcher assigns to serverX,
\* BASE_PORT plus the position of serverX in the numerically sorted directory
\* list, equals the port 3000 + X in every URL of the metaindex of serverX and
\* in the row of serverX in LTOVERLAYSERVERS.csv, for every X in 1..N.
C27_PortAgreement ==
    Discovered =>
        /\ \A X \in 1..Len(metaindex) :
              /\ \E pos \in 1..Len(launch_servers) : launch_servers[pos] = ServerName(X)
              /\ LauncherPort(ServerName(X)) = 3000 + X
              /\ \A pod_id \in 1..Len(metaindex[X]) :
                    metaindex[X][pod_id].port = LauncherPort(ServerName(X))
              /\ \E row \in 1..Len(csv_rows) : csv_rows[row].server_name = ServerName(X)
              /\ \A row \in 1..Len(csv_rows) :
                    csv_rows[row].server_name = ServerName(X)
                        => csv_rows[row].port = LauncherPort(ServerName(X))
        /\ \A p \in 1..Len(processes) :
              processes[p].port = LauncherPort(processes[p].server_name)

\* C27 witness: eleven servers are running; os.listdir had handed out server10
\* before server2, and server10 runs on the port 3010 of its metaindex rows.
C27_Witness ==
    /\ lpc = "running"
    /\ Len(metaindex) = 11
    /\ Len(processes) = 11
    /\ \E i, j \in 1..Len(listing) :
          /\ i < j
          /\ listing[i] = ServerName(10)
          /\ listing[j] = ServerName(2)
    /\ \E p \in 1..Len(processes) :
          /\ processes[p].server_name = <<1, 0>>
          /\ processes[p].port = 3010
    /\ Len(metaindex[10]) >= 1
    /\ metaindex[10][1].port = 3010

====
